---- MODULE Spec2Model ----
(***************************************************************************)
(* Model of the natural-language-to-SQL pipeline of "Converse With Your    *)
(* Data": the App component's state and handlers (src/App.tsx) and the     *)
(* services they call (src/services/dataService.ts,                        *)
(* src/services/geminiService.ts).                                         *)
(*                                                                         *)
(* A text (prompt, SQL) is a sequence of atoms: an atom is either the      *)
(* whitespace atom " " or a chunk that starts and ends with a              *)
(* non-whitespace character.  The empty string is << >>.                   *)
(*                                                                         *)
(* Not modelled: activeTab, fileName, connectionType and the refs, which   *)
(* no handler of the pipeline reads.                                       *)
(*                                                                         *)
(* Specifications: Spec, the application; ServiceSpec, the service         *)
(* functions called directly with every input of their bounded domains;    *)
(* ReplaySpec, the application on the sample data when the question typed  *)
(* is the words Manual Query; LiveSpec, the application with the external  *)
(* call and the timer bound to answer; IngestSpec, the ingestion of files  *)
(* whose parses overlap or fail; ProfileSpec, the column analysis of the   *)
(* Visualization component (src/components/Visualization.tsx); and         *)
(* ComposeSpec, the instruction text built for the language model.         *)
(***************************************************************************)
EXTENDS FiniteSets, Integers, Sequences, TLC

VARIABLES
    state,          \* ExtendedAppState: "UPLOAD" | "PREVIEW" | "ANALYSIS"
    data,           \* DataRow[]: the loaded dataset
    columns,        \* the keys of the first parsed row
    prompt,         \* the text of the question box
    generatedSql,   \* the text shown in the SQL console
    queryResult,    \* QueryResult | null
    isGenerating,   \* the in-flight flag
    sqlStatus,      \* "idle" | "checking" | "valid" | "invalid"
    history,        \* HistoryItem[], newest first
    flight,         \* the suspended handlePromptSubmit call (its closure and position)
    parsing,        \* the files whose parseCSV promise is still pending
    alasqlLoaded,   \* whether window.alasql is defined
    papaLoaded,     \* whether window.Papa is defined
    now,            \* the last reading of Date.now()
    calls,          \* history variable: the service calls made by the submission in flight
                    \* or just finished, and by the manual run of the last step, and the
                    \* parseCSV promise that settled in the last step
    completed,      \* history variable: the submissions finished and the manual runs that
                    \* passed validation since the ledger was last emptied
    lastCall,       \* the latest direct call of a service function: its arguments, the
                    \* engine calls it made and what it returned
    earlierCall     \* a call of validateSQL made before lastCall

vars == <<state, data, columns, prompt, generatedSql, queryResult, isGenerating,
          sqlStatus, history, flight, parsing, alasqlLoaded, papaLoaded, now,
          calls, completed, lastCall, earlierCall>>

\* the record of the direct calls of the service functions
serviceVars == <<lastCall, earlierCall>>

\* the state of the App component
appVars == <<state, data, columns, prompt, generatedSql, queryResult, isGenerating,
             sqlStatus, history>>

----------------------------------------------------------------------------
\* Bounds: the ledger is followed up to MaxHistory entries (a step that would
\* add one more is not taken), the clock up to MaxClock, and an execution
\* takes up to MaxExecMs

MaxHistory == 2
MaxClock == 1
MaxExecMs == 0

\* the raw outputs of the language model are all the texts of up to MaxRawLen
\* atoms, and the fenced outputs listed in RawOutputs
MaxRawLen == 3

\* the readings of performance.now() in a direct call of executeSQL: 0..MaxPerfClock
MaxPerfClock == 2

----------------------------------------------------------------------------
\* Texts

EmptyText == << >>

RECURSIVE TrimStart(_)
TrimStart(t) ==
    IF t = << >> THEN << >>
    ELSE IF Head(t) = " " THEN TrimStart(Tail(t)) ELSE t

RECURSIVE TrimEnd(_)
TrimEnd(t) ==
    IF t = << >> THEN << >>
    ELSE IF t[Len(t)] = " " THEN TrimEnd(SubSeq(t, 1, Len(t) - 1)) ELSE t

\* String.prototype.trim
Trim(t) == TrimEnd(TrimStart(t))

Question1 == <<"How many cases?">>
ManualQueryLabel == <<"Manual Query">>
ManualSqlQueryLabel == <<"Manual SQL Query">>

\* what the user types into the question box
PromptTexts == {<<" ">>, Question1}

SqlFilter == <<"SELECT category, amount FROM ? WHERE amount > 15">>
SqlTypo == <<"SELEC * FORM ?">>
SqlMissingTable == <<"SELECT * FROM missing_table">>

\* what generateSQLFromPrompt resolves to: a statement that runs, one that does
\* not parse, one that parses and fails when run
SqlTexts == {SqlFilter, SqlTypo, SqlMissingTable}

\* two statements the engine rejects with an error that carries an empty
\* message, and with a thrown value that has no message property
SqlEmptyMessage == <<"SELECT FROM">>
SqlNoMessage == <<"SELECT )">>

\* the statements a service function is called with directly
ServiceSqlTexts == SqlTexts \cup {SqlEmptyMessage, SqlNoMessage}

TranslationErrorMessage == "Failed to generate SQL from prompt."

----------------------------------------------------------------------------
\* Datasets and files

DataA == <<[category |-> "A", amount |-> 10], [category |-> "B", amount |-> 20]>>

\* the rows of a second file with the same header
DataB == <<[category |-> "C", amount |-> 30]>>

SampleFile == "cancer_research_data.csv"

RegistryFile == "registry.csv"

\* what the user can pick in the file dialog
Files == {SampleFile, "empty.csv"}

\* a wider choice: a second file with rows, and a file that cannot be read
IngestFiles == Files \cup {RegistryFile, "unreadable.csv"}

\* window.Papa.parse: the callback it calls and what it hands to it
PapaParse(file) ==
    CASE file = SampleFile -> [callback |-> "complete", data |-> DataA]
      [] file = RegistryFile -> [callback |-> "complete", data |-> DataB]
      [] file = "unreadable.csv" -> [callback |-> "error", error |-> "NotReadableError"]
      [] OTHER -> [callback |-> "complete", data |-> << >>]

\* Object.keys(parsedData[0])
ObjectKeys(row) == DOMAIN row

----------------------------------------------------------------------------
\* The execution engine (window.alasql), by its contract

\* window.alasql.parse(sql): whether it throws, and the message of the error
AlasqlParse(sql) ==
    CASE sql = SqlTypo ->
            [throws |-> TRUE, message |-> "Parse error on line 1: SELEC * FORM ?"]
      [] sql = SqlEmptyMessage -> [throws |-> TRUE, message |-> ""]
      [] sql = SqlNoMessage -> [throws |-> TRUE]
      [] OTHER -> [throws |-> FALSE]

\* window.alasql(sql, [data])
AlasqlQuery(sql, rows) ==
    CASE sql = SqlFilter ->
            [throws |-> FALSE, res |-> SelectSeq(rows, LAMBDA r : r.amount > 15)]
      [] sql = SqlMissingTable ->
            [throws |-> TRUE, message |-> "Table does not exist: missing_table"]
      [] sql = SqlTypo ->
            [throws |-> TRUE, message |-> "Parse error on line 1: SELEC * FORM ?"]
      [] sql = SqlEmptyMessage -> [throws |-> TRUE, message |-> ""]
      [] sql = SqlNoMessage -> [throws |-> TRUE]
      [] OTHER -> [throws |-> FALSE, res |-> << >>]

----------------------------------------------------------------------------
\* src/services/dataService.ts

\* parseCSV resolving with whatever the parser hands over, rows or not
parseCSVResolvesEmpty(file, papa) ==
    IF ~papa
    THEN [settled |-> "rejected", reason |-> "PapaParse library not loaded"]
    ELSE LET results == PapaParse(file) IN
         IF results.callback = "error"
         THEN [settled |-> "rejected", reason |-> results.error]
         ELSE [settled |-> "resolved", value |-> results.data]

\* parseCSV: how the promise it returns settles
parseCSV(file, papa) ==
    IF ~papa
    THEN [settled |-> "rejected", reason |-> "PapaParse library not loaded"]
    ELSE LET results == PapaParse(file) IN
         IF results.callback = "error"
         THEN [settled |-> "rejected", reason |-> results.error]
         ELSE IF Len(results.data) > 0
              THEN [settled |-> "resolved", value |-> results.data]
              ELSE [settled |-> "rejected", reason |-> "No data found in CSV"]

HasError(result) == "error" \in DOMAIN result

\* JavaScript truthiness of result.error
ErrorTruthy(result) == HasError(result) /\ result.error # ""

\* err.message || fallback
MessageOr(err, fallback) ==
    IF "message" \in DOMAIN err /\ err.message # "" THEN err.message ELSE fallback

\* validateSQL parsing whether or not the engine is there: the call on the
\* missing engine throws
validateSQLNoEngineTest(sql, loaded) ==
    LET p == IF loaded THEN AlasqlParse(sql)
             ELSE [throws |-> TRUE,
                   message |-> "Cannot read properties of undefined (reading 'parse')"]
    IN  IF p.throws
        THEN [valid |-> FALSE, error |-> MessageOr(p, "Syntax error")]
        ELSE [valid |-> TRUE]

\* validateSQL refusing every statement while the engine is not there
validateSQLFailsClosed(sql, loaded) ==
    IF ~loaded THEN [valid |-> FALSE, error |-> "AlaSQL library not loaded"]
    ELSE LET p == AlasqlParse(sql) IN
         IF p.throws
         THEN [valid |-> FALSE, error |-> MessageOr(p, "Syntax error")]
         ELSE [valid |-> TRUE]

\* validateSQL answering every parse error with the same text
validateSQLFixedText(sql, loaded) ==
    IF ~loaded THEN [valid |-> TRUE]
    ELSE IF AlasqlParse(sql).throws
         THEN [valid |-> FALSE, error |-> "Syntax error"]
         ELSE [valid |-> TRUE]

validateSQL(sql, loaded) ==
    IF ~loaded THEN [valid |-> TRUE]
    ELSE LET p == AlasqlParse(sql) IN
         IF p.throws
         THEN [valid |-> FALSE, error |-> MessageOr(p, "Syntax error")]
         ELSE [valid |-> TRUE]

\* the calls validateSQL makes to the engine, with what they did
validateSQLEngineCalls(sql, loaded) ==
    IF ~loaded THEN << >>
    ELSE <<[fn |-> "alasql.parse", sql |-> sql, result |-> AlasqlParse(sql)]>>

\* executeSQL without the try block: what the engine throws goes to the caller
executeSQLNoCatch(sql, rows, loaded, elapsed) ==
    IF ~loaded THEN [data |-> << >>, error |-> "AlaSQL library not loaded"]
    ELSE LET q == AlasqlQuery(sql, rows) IN
         IF q.throws THEN q
         ELSE [data |-> q.res, executionTimeMs |-> elapsed]

\* executeSQL without the test of the engine: the call on the missing engine
\* throws inside the try block
executeSQLNoEngineTest(sql, rows, loaded, elapsed) ==
    LET q == IF loaded THEN AlasqlQuery(sql, rows)
             ELSE [throws |-> TRUE, message |-> "window.alasql is not a function"]
    IN  IF q.throws
        THEN [data |-> << >>, error |-> MessageOr(q, "Unknown SQL execution error")]
        ELSE [data |-> q.res, executionTimeMs |-> elapsed]

\* executeSQL handing back the input rows with the error
executeSQLKeepsRows(sql, rows, loaded, elapsed) ==
    IF ~loaded THEN [data |-> rows, error |-> "AlaSQL library not loaded"]
    ELSE LET q == AlasqlQuery(sql, rows) IN
         IF q.throws
         THEN [data |-> rows, error |-> MessageOr(q, "Unknown SQL execution error")]
         ELSE [data |-> q.res, executionTimeMs |-> elapsed]

\* executeSQL reporting no time
executeSQLTimesNothing(sql, rows, loaded, elapsed) ==
    IF ~loaded THEN [data |-> << >>, error |-> "AlaSQL library not loaded"]
    ELSE LET q == AlasqlQuery(sql, rows) IN
         IF q.throws
         THEN [data |-> << >>, error |-> MessageOr(q, "Unknown SQL execution error")]
         ELSE [data |-> q.res]

\* elapsed = endTime - startTime of the two performance.now() reads
executeSQL(sql, rows, loaded, elapsed) ==
    IF ~loaded THEN [data |-> << >>, error |-> "AlaSQL library not loaded"]
    ELSE LET q == AlasqlQuery(sql, rows) IN
         IF q.throws
         THEN [data |-> << >>, error |-> MessageOr(q, "Unknown SQL execution error")]
         ELSE [data |-> q.res, executionTimeMs |-> elapsed]

\* the calls executeSQL makes to the engine, with what they did
executeSQLEngineCalls(sql, rows, loaded) ==
    IF ~loaded THEN << >>
    ELSE <<[fn |-> "alasql", sql |-> sql, result |-> AlasqlQuery(sql, rows)]>>

\* what executeSQL calls, in order: the clock, the engine with the rows as its
\* only parameter, and the clock again unless the engine threw
executeSQLTrace(sql, rows, loaded, startTime, endTime) ==
    IF ~loaded THEN << >>
    ELSE LET q == AlasqlQuery(sql, rows) IN
         <<[fn |-> "performance.now", time |-> startTime],
           [fn |-> "alasql", sql |-> sql, params |-> <<rows>>, result |-> q]>>
         \o (IF q.throws THEN << >>
             ELSE <<[fn |-> "performance.now", time |-> endTime]>>)

----------------------------------------------------------------------------
\* src/services/geminiService.ts
\*
\* In a raw output a backtick is an atom of its own, and so is the word sql, so
\* that the two patterns of the cleanup match atom by atom; the tag sqlite is
\* the atom sql followed by the atom ite.

\* the backtick character
Backtick == "<backtick>"

Fence == <<Backtick, Backtick, Backtick>>

FenceSql == Fence \o <<"sql">>

RECURSIVE ReplaceAll(_, _)
\* String.prototype.replace with a global pattern and an empty replacement: the matches are found left to
\* right in the original text and do not overlap
ReplaceAll(t, pattern) ==
    IF Len(t) < Len(pattern) THEN t
    ELSE IF SubSeq(t, 1, Len(pattern)) = pattern
         THEN ReplaceAll(SubSeq(t, Len(pattern) + 1, Len(t)), pattern)
         ELSE <<Head(t)>> \o ReplaceAll(Tail(t), pattern)

\* response is what ai.models.generateContent did: it threw, or it returned
\* a response whose text is a string or undefined (no text field)
generateSQLFromPrompt(response) ==
    IF response.throws
    THEN [rejected |-> TRUE, message |-> TranslationErrorMessage]
    ELSE LET text == IF "text" \in DOMAIN response THEN response.text ELSE EmptyText
         IN  [rejected |-> FALSE,
              sql |-> Trim(ReplaceAll(ReplaceAll(text, FenceSql), Fence))]

RawAtoms == {Backtick, "sql", " ", "SELECT 1"}

SeqsUpTo(S, n) == UNION {[1..k -> S] : k \in 0..n}

\* the language tags a model puts after the opening fence
FenceTags == {<< >>, <<"sql">>, <<"SQL">>, <<"sql", "ite">>}

\* a fenced block: the opening fence and its tag, the body on its own line, the closing fence
Fenced(tag, body) == Fence \o tag \o <<" ">> \o body \o <<" ">> \o Fence

RawOutputs ==
    SeqsUpTo(RawAtoms, MaxRawLen)
        \cup {Fenced(tag, body) : tag \in FenceTags, body \in {<< >>, <<"SELECT 1">>}}
        \cup {<<" ">> \o Fenced(<<"sql">>, <<"SELECT 1">>) \o <<" ">>}

\* what the external call can do
Responses ==
    {[throws |-> TRUE], [throws |-> FALSE]}
        \cup {[throws |-> FALSE, text |-> raw] : raw \in RawOutputs}

----------------------------------------------------------------------------
\* src/App.tsx

Null == [null |-> TRUE]

NoFlight == [pc |-> "idle"]

NoCalls == [submit |-> << >>, manual |-> << >>, ingest |-> << >>]

NoneCompleted == [submit |-> 0, manual |-> 0]

NoCall == [fn |-> "none"]

\* the call log after a step that makes no service call: the logs of the manual
\* run and of the settled parseCSV promise last one step, the submission's log
\* until the step after it finished
KeepCalls == [submit |-> IF flight.pc = "idle" THEN << >> ELSE calls.submit,
              manual |-> << >>, ingest |-> << >>]

\* the call log after the step in which the parseCSV promise of a file settled
Settled(file, promise) ==
    [KeepCalls EXCEPT !.ingest = <<[file |-> file, promise |-> promise]>>]

HistoryItem(promptText, sql, result, isSuccess, t) ==
    [id |-> ToString(t),
     prompt |-> IF promptText = EmptyText THEN ManualSqlQueryLabel ELSE promptText,
     sql |-> sql,
     timestamp |-> t,
     result |-> result,
     status |-> IF isSuccess THEN "success" ELSE "error"]

\* addToHistory appending the new item at the end
addToHistoryAtEnd(prev, promptText, sql, result, isSuccess, t) ==
    prev \o <<HistoryItem(promptText, sql, result, isSuccess, t)>>

\* addToHistory replacing the ledger by the new item
addToHistoryReplaces(prev, promptText, sql, result, isSuccess, t) ==
    <<HistoryItem(promptText, sql, result, isSuccess, t)>>

addToHistory(prev, promptText, sql, result, isSuccess, t) ==
    <<HistoryItem(promptText, sql, result, isSuccess, t)>> \o prev

SyntaxErrorResult(validation) ==
    [data |-> << >>, error |-> "SQL Syntax Error: " \o validation.error]

\* SubmitTail without the return on a failed validation
SubmitTailExecutesInvalid(sql, rows, loaded, elapsed) ==
    LET validation == validateSQL(sql, loaded)
        result == executeSQL(sql, rows, loaded, elapsed)
    IN  [sqlStatus |-> IF validation.valid THEN "valid" ELSE "invalid",
         queryResult |-> result, sql |-> sql, isSuccess |-> ~ErrorTruthy(result),
         calls |-> <<[op |-> "validate", sql |-> sql, ok |-> validation.valid],
                     [op |-> "execute", sql |-> sql, ok |-> ~ErrorTruthy(result)],
                     [op |-> "addToHistory", sql |-> sql, ok |-> ~ErrorTruthy(result)]>>]

\* SubmitTail recording the entry before it executes
SubmitTailRecordsFirst(sql, rows, loaded, elapsed) ==
    LET validation == validateSQL(sql, loaded)
        vcall == [op |-> "validate", sql |-> sql, ok |-> validation.valid]
    IN  IF ~validation.valid
        THEN LET errorResult == SyntaxErrorResult(validation) IN
             [sqlStatus |-> "invalid", queryResult |-> errorResult,
              sql |-> sql, isSuccess |-> FALSE,
              calls |-> <<vcall, [op |-> "addToHistory", sql |-> sql, ok |-> FALSE]>>]
        ELSE LET result == executeSQL(sql, rows, loaded, elapsed) IN
             [sqlStatus |-> "valid", queryResult |-> result,
              sql |-> sql, isSuccess |-> ~ErrorTruthy(result),
              calls |-> <<vcall,
                          [op |-> "addToHistory", sql |-> sql,
                           ok |-> ~ErrorTruthy(result)],
                          [op |-> "execute", sql |-> sql, ok |-> ~ErrorTruthy(result)]>>]

\* SubmitTail passing true as isSuccess after the execution
SubmitTailAlwaysSuccess(sql, rows, loaded, elapsed) ==
    LET validation == validateSQL(sql, loaded)
        vcall == [op |-> "validate", sql |-> sql, ok |-> validation.valid]
    IN  IF ~validation.valid
        THEN LET errorResult == SyntaxErrorResult(validation) IN
             [sqlStatus |-> "invalid", queryResult |-> errorResult,
              sql |-> sql, isSuccess |-> FALSE,
              calls |-> <<vcall, [op |-> "addToHistory", sql |-> sql, ok |-> FALSE]>>]
        ELSE LET result == executeSQL(sql, rows, loaded, elapsed) IN
             [sqlStatus |-> "valid", queryResult |-> result,
              sql |-> sql, isSuccess |-> TRUE,
              calls |-> <<vcall,
                          [op |-> "execute", sql |-> sql, ok |-> ~ErrorTruthy(result)],
                          [op |-> "addToHistory", sql |-> sql, ok |-> TRUE]>>]

\* the tail recording the text of the SQL console in place of the text it ran
SubmitTailRecordsConsoleSql(sql, rows, loaded, elapsed) ==
    LET validation == validateSQL(sql, loaded)
        vcall == [op |-> "validate", sql |-> sql, ok |-> validation.valid]
    IN  IF ~validation.valid
        THEN LET errorResult == SyntaxErrorResult(validation) IN
             [sqlStatus |-> "invalid", queryResult |-> errorResult,
              sql |-> generatedSql, isSuccess |-> FALSE,
              calls |-> <<vcall, [op |-> "addToHistory", sql |-> generatedSql,
                                  ok |-> FALSE]>>]
        ELSE LET result == executeSQL(sql, rows, loaded, elapsed) IN
             [sqlStatus |-> "valid", queryResult |-> result,
              sql |-> generatedSql, isSuccess |-> ~ErrorTruthy(result),
              calls |-> <<vcall,
                          [op |-> "execute", sql |-> sql, ok |-> ~ErrorTruthy(result)],
                          [op |-> "addToHistory", sql |-> generatedSql,
                           ok |-> ~ErrorTruthy(result)]>>]

\* the synchronous part of handlePromptSubmit after the pause: validate, execute, record
SubmitTail(sql, rows, loaded, elapsed) ==
    LET validation == validateSQL(sql, loaded)
        vcall == [op |-> "validate", sql |-> sql, ok |-> validation.valid]
    IN  IF ~validation.valid
        THEN LET errorResult == SyntaxErrorResult(validation) IN
             [sqlStatus |-> "invalid", queryResult |-> errorResult,
              sql |-> sql, isSuccess |-> FALSE,
              calls |-> <<vcall, [op |-> "addToHistory", sql |-> sql, ok |-> FALSE]>>]
        ELSE LET result == executeSQL(sql, rows, loaded, elapsed) IN
             [sqlStatus |-> "valid", queryResult |-> result,
              sql |-> sql, isSuccess |-> ~ErrorTruthy(result),
              calls |-> <<vcall,
                          [op |-> "execute", sql |-> sql, ok |-> ~ErrorTruthy(result)],
                          [op |-> "addToHistory", sql |-> sql,
                           ok |-> ~ErrorTruthy(result)]>>]

\* the body of handleManualSqlRun once its guard has passed
ManualTail(sql, rows, loaded, elapsed) ==
    LET validation == validateSQL(sql, loaded)
        vcall == [op |-> "validate", sql |-> sql, ok |-> validation.valid]
    IN  IF ~validation.valid
        THEN [sqlStatus |-> "invalid", queryResult |-> SyntaxErrorResult(validation),
              record |-> FALSE, isSuccess |-> FALSE, calls |-> <<vcall>>]
        ELSE LET result == executeSQL(sql, rows, loaded, elapsed) IN
             [sqlStatus |-> "valid", queryResult |-> result,
              record |-> TRUE, isSuccess |-> ~ErrorTruthy(result),
              calls |-> <<vcall,
                          [op |-> "execute", sql |-> sql, ok |-> ~ErrorTruthy(result)],
                          [op |-> "addToHistory", sql |-> sql,
                           ok |-> ~ErrorTruthy(result)]>>]

\* the catch block recording the text of the SQL console
CatchBlockKeepsSql(prev, promptText, message, t) ==
    LET errorResult == [data |-> << >>, error |-> message] IN
    [queryResult |-> errorResult, sqlStatus |-> "invalid",
     history |-> addToHistory(prev, promptText, promptText, errorResult, FALSE, t)]

\* the catch block of handlePromptSubmit
CatchBlock(prev, promptText, message, t) ==
    LET errorResult == [data |-> << >>, error |-> message] IN
    [queryResult |-> errorResult, sqlStatus |-> "invalid",
     history |-> addToHistory(prev, promptText, EmptyText, errorResult, FALSE, t)]

\* the guard without the test of the in-flight flag
SubmitAcceptedWhileGenerating(p, generating) == ~(Trim(p) = EmptyText)

\* the guard of handlePromptSubmit
SubmitAccepted(p, generating) == ~(Trim(p) = EmptyText \/ generating)

\* the Run Query button is enabled
RunQueryEnabled == generatedSql # EmptyText /\ sqlStatus # "checking"

Init ==
    /\ state = "UPLOAD"
    /\ data = << >>
    /\ columns = {}
    /\ prompt = EmptyText
    /\ generatedSql = EmptyText
    /\ queryResult = Null
    /\ isGenerating = FALSE
    /\ sqlStatus = "idle"
    /\ history = << >>
    /\ flight = NoFlight
    /\ parsing = {}
    /\ alasqlLoaded \in BOOLEAN
    /\ papaLoaded \in BOOLEAN
    /\ now = 0
    /\ calls = NoCalls
    /\ completed = NoneCompleted
    /\ lastCall = NoCall
    /\ earlierCall = NoCall

\* the values Date.now() can return at the next reading: the clock does not go back
ClockReadings == now..MaxClock

\* the engine's script finishes loading
EngineLoads ==
    /\ ~alasqlLoaded
    /\ alasqlLoaded' = TRUE
    /\ UNCHANGED <<serviceVars, papaLoaded, appVars, flight, parsing, now, calls, completed>>

\* the parser's script finishes loading
PapaLoads ==
    /\ ~papaLoaded
    /\ papaLoaded' = TRUE
    /\ UNCHANGED <<serviceVars, appVars, flight, parsing, alasqlLoaded, now, calls,
                   completed>>

\* handleFileUpload up to the suspension on parseCSV; without the parser the
\* promise is rejected at once and the catch block only alerts
handleFileUpload(file) ==
    /\ state = "UPLOAD"
    /\ parsing' = IF papaLoaded THEN parsing \cup {file} ELSE parsing
    /\ calls' = IF papaLoaded THEN KeepCalls ELSE Settled(file, parseCSV(file, FALSE))
    /\ UNCHANGED <<serviceVars, papaLoaded, appVars, flight, alasqlLoaded, now, completed>>

\* loadSampleData up to the pending parseCSV promise; without the parser the
\* promise is rejected at once and the catch callback only alerts
loadSampleData ==
    /\ state = "UPLOAD"
    /\ parsing' = IF papaLoaded THEN parsing \cup {SampleFile} ELSE parsing
    /\ calls' = IF papaLoaded THEN KeepCalls
                ELSE Settled(SampleFile, parseCSV(SampleFile, FALSE))
    /\ UNCHANGED <<serviceVars, papaLoaded, appVars, flight, alasqlLoaded, now, completed>>

\* the parseCSV promise of a file settles and the handler that waits for it
\* goes on: the four setters when it resolved (reading the keys of a first
\* row that is missing throws into the catch block, after setData), the
\* alert alone when it rejected
parseCSVSettles(file) ==
    /\ file \in parsing
    /\ parsing' = parsing \ {file}
    /\ LET promise == parseCSV(file, papaLoaded) IN
       IF promise.settled = "resolved"
       THEN LET parsedData == promise.value IN
            /\ data' = parsedData
            /\ IF Len(parsedData) > 0
               THEN /\ columns' = ObjectKeys(parsedData[1])
                    /\ state' = "PREVIEW"
               ELSE UNCHANGED <<columns, state>>
       ELSE UNCHANGED <<data, columns, state>>
    /\ calls' = Settled(file, parseCSV(file, papaLoaded))
    /\ UNCHANGED <<serviceVars, papaLoaded, prompt, generatedSql, queryResult, isGenerating,
                   sqlStatus, history, flight, alasqlLoaded, now, completed>>

confirmPreview ==
    /\ state = "PREVIEW"
    /\ state' = "ANALYSIS"
    /\ calls' = KeepCalls
    /\ UNCHANGED <<serviceVars, papaLoaded, data, columns, prompt, generatedSql, queryResult, isGenerating,
                   sqlStatus, history, flight, parsing, alasqlLoaded, now, completed>>

\* onChange of the question box
setPrompt(text) ==
    /\ state = "ANALYSIS"
    /\ prompt' = text
    /\ calls' = KeepCalls
    /\ UNCHANGED <<serviceVars, papaLoaded, state, data, columns, generatedSql, queryResult, isGenerating,
                   sqlStatus, history, flight, parsing, alasqlLoaded, now, completed>>

\* handlePromptSubmit up to the suspension on generateSQLFromPrompt
handlePromptSubmit ==
    /\ state = "ANALYSIS"
    /\ IF SubmitAccepted(prompt, isGenerating)
       THEN /\ isGenerating' = TRUE
            /\ queryResult' = Null
            /\ generatedSql' = EmptyText
            /\ sqlStatus' = "idle"
            /\ flight' = [pc |-> "translating", prompt |-> prompt, data |-> data]
            /\ calls' = NoCalls
       ELSE /\ calls' = KeepCalls
            /\ UNCHANGED <<isGenerating, queryResult, generatedSql, sqlStatus, flight>>
    /\ UNCHANGED <<serviceVars, papaLoaded, state, data, columns, prompt, history, parsing, alasqlLoaded, now,
                   completed>>

\* generateSQLFromPrompt resolves with sql; the handler runs on to the pause
translateResolves(sql) ==
    /\ flight.pc = "translating"
    /\ generatedSql' = sql
    /\ sqlStatus' = "checking"
    /\ flight' = [pc |-> "pause", prompt |-> flight.prompt, data |-> flight.data,
                  sql |-> sql]
    /\ calls' = [submit |-> Append(calls.submit,
                                   [op |-> "translate", sql |-> sql, ok |-> TRUE]),
                 manual |-> << >>, ingest |-> << >>]
    /\ UNCHANGED <<serviceVars, papaLoaded, state, data, columns, prompt, queryResult, isGenerating, history,
                   parsing, alasqlLoaded, now, completed>>

\* generateSQLFromPrompt rejects; the catch and finally blocks run
translateRejects ==
    /\ flight.pc = "translating"
    /\ Len(history) < MaxHistory
    /\ \E t \in ClockReadings :
         LET c == CatchBlock(history, flight.prompt, TranslationErrorMessage, t) IN
         /\ queryResult' = c.queryResult
         /\ sqlStatus' = c.sqlStatus
         /\ history' = c.history
         /\ now' = t
    /\ isGenerating' = FALSE
    /\ flight' = NoFlight
    /\ calls' = [submit |-> calls.submit \o
                     <<[op |-> "translate", sql |-> EmptyText, ok |-> FALSE],
                       [op |-> "addToHistory", sql |-> EmptyText, ok |-> FALSE]>>,
                 manual |-> << >>, ingest |-> << >>]
    /\ completed' = [completed EXCEPT !.submit = @ + 1]
    /\ UNCHANGED <<serviceVars, papaLoaded, state, data, columns, prompt, generatedSql, parsing, alasqlLoaded>>

\* pauseEnds leaving the in-flight flag as it is
pauseEndsKeepsFlag ==
    /\ flight.pc = "pause"
    /\ Len(history) < MaxHistory
    /\ \E elapsed \in 0..MaxExecMs, t \in ClockReadings :
         LET r == SubmitTail(flight.sql, flight.data, alasqlLoaded, elapsed) IN
         /\ sqlStatus' = r.sqlStatus
         /\ queryResult' = r.queryResult
         /\ history' = addToHistory(history, flight.prompt, r.sql, r.queryResult,
                                    r.isSuccess, t)
         /\ calls' = [submit |-> calls.submit \o r.calls, manual |-> << >>, ingest |-> << >>]
         /\ now' = t
    /\ isGenerating' = isGenerating
    /\ flight' = NoFlight
    /\ completed' = [completed EXCEPT !.submit = @ + 1]
    /\ UNCHANGED <<serviceVars, papaLoaded, state, data, columns, prompt, generatedSql, parsing, alasqlLoaded>>

\* the pause ends; the handler validates, executes and records
pauseEnds ==
    /\ flight.pc = "pause"
    /\ Len(history) < MaxHistory
    /\ \E elapsed \in 0..MaxExecMs, t \in ClockReadings :
         LET r == SubmitTail(flight.sql, flight.data, alasqlLoaded, elapsed) IN
         /\ sqlStatus' = r.sqlStatus
         /\ queryResult' = r.queryResult
         /\ history' = addToHistory(history, flight.prompt, r.sql, r.queryResult,
                                    r.isSuccess, t)
         /\ calls' = [submit |-> calls.submit \o r.calls, manual |-> << >>, ingest |-> << >>]
         /\ now' = t
    /\ isGenerating' = FALSE
    /\ flight' = NoFlight
    /\ completed' = [completed EXCEPT !.submit = @ + 1]
    /\ UNCHANGED <<serviceVars, papaLoaded, state, data, columns, prompt, generatedSql, parsing, alasqlLoaded>>

handleManualSqlRun ==
    /\ state = "ANALYSIS"
    /\ RunQueryEnabled
    /\ Len(history) < MaxHistory
    /\ IF Trim(generatedSql) = EmptyText
       THEN /\ calls' = KeepCalls
            /\ UNCHANGED <<sqlStatus, queryResult, history, completed, now>>
       ELSE \E elapsed \in 0..MaxExecMs, t \in ClockReadings :
              LET r == ManualTail(generatedSql, data, alasqlLoaded, elapsed) IN
              /\ sqlStatus' = r.sqlStatus
              /\ queryResult' = r.queryResult
              /\ history' = IF r.record
                            THEN addToHistory(history, ManualQueryLabel, generatedSql,
                                              r.queryResult, r.isSuccess, t)
                            ELSE history
              /\ now' = IF r.record THEN t ELSE now
              /\ calls' = [submit |-> KeepCalls.submit, manual |-> r.calls, ingest |-> << >>]
              /\ completed' = IF r.calls[1].ok
                               THEN [completed EXCEPT !.manual = @ + 1]
                               ELSE completed
    /\ UNCHANGED <<serviceVars, papaLoaded, state, data, columns, prompt, generatedSql, isGenerating, flight,
                   parsing, alasqlLoaded>>

\* loadHistoryItem moving the entry it loads to the front of the ledger
loadHistoryItemMovesToFront(i) ==
    /\ state = "ANALYSIS"
    /\ i \in 1..Len(history)
    /\ LET item == history[i] IN
       /\ prompt' = IF item.prompt = ManualQueryLabel THEN EmptyText ELSE item.prompt
       /\ generatedSql' = item.sql
       /\ queryResult' = item.result
       /\ sqlStatus' = IF item.status = "success" THEN "valid" ELSE "invalid"
       /\ history' = <<item>> \o SubSeq(history, 1, i - 1)
                            \o SubSeq(history, i + 1, Len(history))
    /\ calls' = KeepCalls
    /\ UNCHANGED <<serviceVars, papaLoaded, state, data, columns, isGenerating, flight, parsing,
                   alasqlLoaded, now, completed>>

loadHistoryItem(i) ==
    /\ state = "ANALYSIS"
    /\ i \in 1..Len(history)
    /\ LET item == history[i] IN
       /\ prompt' = IF item.prompt = ManualQueryLabel THEN EmptyText ELSE item.prompt
       /\ generatedSql' = item.sql
       /\ queryResult' = item.result
       /\ sqlStatus' = IF item.status = "success" THEN "valid" ELSE "invalid"
    /\ calls' = KeepCalls
    /\ UNCHANGED <<serviceVars, papaLoaded, state, data, columns, isGenerating, history, flight, parsing,
                   alasqlLoaded, now, completed>>

\* Disconnect Source in the analysis view, Cancel in the preview
resetApp ==
    /\ state \in {"PREVIEW", "ANALYSIS"}
    /\ state' = "UPLOAD"
    /\ data' = << >>
    /\ prompt' = EmptyText
    /\ generatedSql' = EmptyText
    /\ queryResult' = Null
    /\ sqlStatus' = "idle"
    /\ history' = << >>
    /\ calls' = KeepCalls
    /\ completed' = NoneCompleted
    /\ UNCHANGED <<serviceVars, papaLoaded, columns, isGenerating, flight, parsing, alasqlLoaded, now>>

\* the validateSQL calls made so far that a later call can be compared with
Remembered ==
    {earlierCall} \cup (IF lastCall.fn = "validateSQL" THEN {lastCall} ELSE {})

\* a call of validateSQL
callValidateSQL(sql) ==
    /\ lastCall' = [fn |-> "validateSQL", sql |-> sql, loaded |-> alasqlLoaded,
                    engine |-> validateSQLEngineCalls(sql, alasqlLoaded),
                    out |-> validateSQL(sql, alasqlLoaded)]
    /\ earlierCall' \in Remembered
    /\ UNCHANGED <<appVars, flight, parsing, alasqlLoaded, papaLoaded, now, calls, completed>>

\* a call of executeSQL: the two readings of performance.now(), a clock that
\* does not go back, are startTime and endTime
callExecuteSQL(sql, rows) ==
    /\ \E startTime \in 0..MaxPerfClock : \E endTime \in startTime..MaxPerfClock :
         lastCall' = [fn |-> "executeSQL", sql |-> sql, rows |-> rows,
                      loaded |-> alasqlLoaded,
                      engine |-> executeSQLEngineCalls(sql, rows, alasqlLoaded),
                      trace |-> executeSQLTrace(sql, rows, alasqlLoaded, startTime, endTime),
                      out |-> executeSQL(sql, rows, alasqlLoaded, endTime - startTime)]
    /\ earlierCall' \in Remembered
    /\ UNCHANGED <<appVars, flight, parsing, alasqlLoaded, papaLoaded, now, calls, completed>>

\* a call of generateSQLFromPrompt, settled
callGenerateSQLFromPrompt(response) ==
    /\ lastCall' = [fn |-> "generateSQLFromPrompt", response |-> response,
                    out |-> generateSQLFromPrompt(response)]
    /\ earlierCall' \in Remembered
    /\ UNCHANGED <<appVars, flight, parsing, alasqlLoaded, papaLoaded, now, calls, completed>>

Next ==
    \/ EngineLoads
    \/ PapaLoads
    \/ \E file \in Files : handleFileUpload(file)
    \/ loadSampleData
    \/ \E file \in Files : parseCSVSettles(file)
    \/ confirmPreview
    \/ \E text \in PromptTexts : setPrompt(text)
    \/ handlePromptSubmit
    \/ \E sql \in SqlTexts : translateResolves(sql)
    \/ translateRejects
    \/ pauseEnds
    \/ handleManualSqlRun
    \/ \E i \in 1..(MaxHistory + 1) : loadHistoryItem(i)
    \/ resetApp

Spec == Init /\ [][Next]_vars

\* the service functions called directly, in any order, while the engine loads
ServiceNext ==
    \/ EngineLoads
    \/ \E sql \in ServiceSqlTexts : callValidateSQL(sql)
    \/ \E sql \in ServiceSqlTexts, rows \in {<< >>, DataA} : callExecuteSQL(sql, rows)
    \/ \E response \in Responses : callGenerateSQLFromPrompt(response)

\* the service functions under test do not read window.Papa: the sessions
\* followed are those that start with the parser loaded
ServiceInit == Init /\ papaLoaded

ServiceSpec == ServiceInit /\ [][ServiceNext]_vars

\* the sessions on the sample data in which the user types the words
\* Manual Query as the question
ReplayNext ==
    \/ EngineLoads
    \/ PapaLoads
    \/ loadSampleData
    \/ parseCSVSettles(SampleFile)
    \/ confirmPreview
    \/ setPrompt(ManualQueryLabel)
    \/ handlePromptSubmit
    \/ \E sql \in SqlTexts : translateResolves(sql)
    \/ translateRejects
    \/ pauseEnds
    \/ handleManualSqlRun
    \/ \E i \in 1..(MaxHistory + 1) : loadHistoryItem(i)
    \/ resetApp

ReplaySpec == Init /\ [][ReplayNext]_vars

\* there is room in the bounded ledger for one more entry, besides the entry
\* that the submission in flight will record
Room == Len(history) + (IF flight.pc = "idle" THEN 0 ELSE 1) < MaxHistory

\* generateSQLFromPrompt settles
translateSettles ==
    \/ translateRejects
    \/ \E sql \in SqlTexts : translateResolves(sql)

\* the sessions on the sample data in which a run is started only while the
\* bounded ledger has room for its entry, so that the bound never holds back
\* a submission in flight
LiveNext ==
    \/ EngineLoads
    \/ PapaLoads
    \/ loadSampleData
    \/ parseCSVSettles(SampleFile)
    \/ confirmPreview
    \/ \E text \in PromptTexts : setPrompt(text)
    \/ (flight.pc # "idle" \/ Room) /\ handlePromptSubmit
    \/ translateSettles
    \/ pauseEnds
    \/ Room /\ handleManualSqlRun
    \/ \E i \in 1..(MaxHistory + 1) : loadHistoryItem(i)
    \/ resetApp

\* the external call returns or fails in the end (the proviso of the claim on
\* the end of a submission), and the timer of the 400 ms pause fires
LiveSpec ==
    /\ Init
    /\ [][LiveNext]_vars
    /\ WF_vars(translateSettles)
    /\ WF_vars(pauseEnds)

----------------------------------------------------------------------------
\* Properties of the application (Spec)

InFlight == flight.pc # "idle"

Ops(log) == {log[i].op : i \in 1..Len(log)}

ValidateFailed(log) == \E i \in 1..Len(log) : log[i].op = "validate" /\ ~log[i].ok

\* every execute call of the log follows a validate call that passed the same SQL text
ExecuteFollowsValid(log) ==
    \A i \in 1..Len(log) :
        log[i].op = "execute" =>
            \E j \in 1..(i - 1) :
                log[j].op = "validate" /\ log[j].ok /\ log[j].sql = log[i].sql

\* C1: in a submission and in a manual run, execute is called only after
\* validate returned valid=true for the same SQL text; when validate returns
\* valid=false, execute is not called and the run ends with the status
\* invalid and an error result.
C1_ExecuteOnlyAfterValid ==
    /\ ExecuteFollowsValid(calls.submit)
    /\ ExecuteFollowsValid(calls.manual)
    /\ ValidateFailed(calls.submit) =>
          /\ "execute" \notin Ops(calls.submit)
          /\ ~InFlight /\ ~isGenerating
          /\ sqlStatus = "invalid" /\ HasError(queryResult)
    /\ ValidateFailed(calls.manual) =>
          /\ "execute" \notin Ops(calls.manual)
          /\ sqlStatus = "invalid" /\ HasError(queryResult)

\* a submission whose SQL failed validation has just finished
C1_Witness ==
    /\ ValidateFailed(calls.submit)
    /\ "addToHistory" \in Ops(calls.submit)
    /\ history[1].sql = SqlTypo

\* C2: while a submission is in flight, no step other than its own completion
\* appends to the history ledger.
C2_NoAppendDuringFlight ==
    [][(InFlight /\ InFlight') => Len(history') <= Len(history)]_vars

\* C3: a submit is accepted exactly when the trimmed question is non-empty and
\* no submission is in flight; otherwise it changes nothing.
C3_SubmitGuard ==
    [][handlePromptSubmit =>
          IF Trim(prompt) # EmptyText /\ ~InFlight
          THEN /\ isGenerating'
               /\ flight'.pc = "translating"
               /\ flight'.prompt = prompt
               /\ history' = history
          ELSE UNCHANGED <<appVars, flight, parsing, completed>>]_vars

\* a submit is refused: the question is not empty and the form is shown, during
\* the pause before the validation (the refused submit leaves this state as it is)
C3_Witness ==
    /\ state = "ANALYSIS"
    /\ flight.pc = "pause"
    /\ Trim(prompt) # EmptyText
    /\ ~SubmitAccepted(prompt, isGenerating)

Rank(op) ==
    CASE op = "translate" -> 1
      [] op = "validate" -> 2
      [] op = "execute" -> 3
      [] op = "addToHistory" -> 4

\* C4: the calls of one submission are made in the order translate, validate,
\* execute, record: validate follows a translation that returned this SQL,
\* execute follows validate, and the record is the last call, made when the
\* submission is over.
C4_PipelineOrder ==
    LET log == calls.submit IN
    /\ \A i, j \in 1..Len(log) : i < j => Rank(log[i].op) < Rank(log[j].op)
    /\ \A i \in 1..Len(log) :
          /\ log[i].op = "translate" => i = 1
          /\ log[i].op = "validate" =>
                /\ i > 1
                /\ log[i - 1].op = "translate" /\ log[i - 1].ok
                /\ log[i - 1].sql = log[i].sql
          /\ log[i].op = "execute" =>
                i > 1 /\ log[i - 1].op = "validate" /\ log[i - 1].sql = log[i].sql
          /\ log[i].op = "addToHistory" => i = Len(log) /\ i > 1 /\ ~InFlight
    /\ flight.pc = "translating" => log = << >>
    /\ flight.pc = "pause" => Len(log) = 1 /\ log[1].op = "translate" /\ log[1].ok

\* a submission has gone through all four steps
C4_Witness ==
    /\ ~InFlight
    /\ Len(calls.submit) = 4
    /\ calls.submit[3].op = "execute"

NewestFirst ==
    \A i, j \in 1..Len(history) :
        i < j => history[i].timestamp >= history[j].timestamp

\* C5: the ledger holds one entry per finished submission (and per manual run
\* that passed validation), newest first, and a step that adds an entry puts
\* it in front of the entries already there, which it leaves as they were.
C5_OneEntryPerSubmission ==
    /\ [](Len(history) = completed.submit + completed.manual)
    /\ []NewestFirst
    /\ [][Len(history') > Len(history) => Tail(history') = history]_vars

\* two submissions have finished at different times, one failed and one succeeded
C5_Witness ==
    /\ completed = [submit |-> 2, manual |-> 0]
    /\ Len(history) = 2
    /\ history[1].timestamp > history[2].timestamp
    /\ history[1].status = "success"
    /\ history[2].status = "error"

\* a step in which handleManualSqlRun got past its guard and validated the SQL
ManualRunStep == calls.manual = << >> /\ calls'.manual # << >>

\* C6: every manual run of non-empty SQL records exactly one history entry,
\* holding the SQL that was run and the result shown: an error entry when
\* the validation fails, the execution result when it passes.
C6_ManualRunRecords ==
    [][ManualRunStep =>
          /\ Len(history') = Len(history) + 1
          /\ Tail(history') = history
          /\ history'[1].sql = generatedSql
          /\ history'[1].result = queryResult'
          /\ ~calls'.manual[1].ok => history'[1].status = "error"]_vars

\* C7 as claimed: the ledger never gets shorter.
C7_NeverShrinks == [][Len(history') >= Len(history)]_vars

IsSuffix(old, new) ==
    /\ Len(old) <= Len(new)
    /\ SubSeq(new, Len(new) - Len(old) + 1, Len(new)) = old

\* only resetApp moves the phase back to UPLOAD
ResetStep == state # "UPLOAD" /\ state' = "UPLOAD"

\* C7 (amended): no operation other than reset/disconnect removes or changes
\* an entry, so between resets the ledger only grows at its front;
\* reset/disconnect empties the ledger.
C7_OnlyResetRemoves ==
    [][IF ResetStep THEN history' = << >> ELSE IsSuffix(history, history')]_vars

\* a full ledger is still there after an entry was loaded back into the view
C7_Witness ==
    /\ Len(history) = MaxHistory
    /\ history[1].sql # history[2].sql
    /\ generatedSql = history[2].sql
    /\ queryResult = history[2].result
    /\ history[1].id # history[2].id

\* C8: the ids of the entries of the ledger are pairwise distinct.
C8_DistinctIds ==
    \A i, j \in 1..Len(history) : i # j => history[i].id # history[j].id

\* C9: an entry has the status error exactly when its result carries an error,
\* and the status success exactly when it carries none.
C9_StatusMatchesError ==
    \A i \in 1..Len(history) :
        /\ history[i].status \in {"success", "error"}
        /\ history[i].status = "error" <=> HasError(history[i].result)
        /\ history[i].status = "success" <=> ~HasError(history[i].result)

\* the ledger holds an execution error and a success
C9_Witness ==
    /\ \E i \in 1..Len(history) :
          /\ history[i].status = "error"
          /\ history[i].sql = SqlMissingTable
          /\ history[i].result.error = "Table does not exist: missing_table"
    /\ \E i \in 1..Len(history) :
          /\ history[i].status = "success"
          /\ "executionTimeMs" \in DOMAIN history[i].result

\* C10: when the translator fails, the submission ends without a call of
\* validate or execute, the view shows the error, and exactly one entry is
\* recorded, with the status error, an empty SQL text and the submitted question.
C10_TranslationFailure ==
    [][(flight.pc = "translating" /\ flight'.pc = "idle") =>
          /\ Ops(calls'.submit) = {"translate", "addToHistory"}
          /\ ~isGenerating'
          /\ sqlStatus' = "invalid"
          /\ HasError(queryResult')
          /\ Len(history') = Len(history) + 1
          /\ Tail(history') = history
          /\ history'[1].status = "error"
          /\ history'[1].sql = EmptyText
          /\ history'[1].prompt = flight.prompt
          /\ history'[1].result = queryResult']_vars

\* a translation has just failed and its entry is at the front of the ledger
C10_Witness ==
    /\ calls.submit # << >>
    /\ ~calls.submit[1].ok
    /\ ~isGenerating
    /\ history[1].sql = EmptyText
    /\ history[1].result.error = TranslationErrorMessage

----------------------------------------------------------------------------
\* Properties of the service functions called directly (ServiceSpec)

\* the engine threw in one of the calls that the service call made to it
EngineThrew(call) ==
    \E i \in 1..Len(call.engine) : call.engine[i].result.throws

\* C11: whenever the engine throws during an execution, executeSQL returns a
\* result with no rows and a non-empty error message; nothing is thrown to
\* the caller.
C11_ExecuteNeverRaises ==
    (lastCall.fn = "executeSQL" /\ EngineThrew(lastCall)) =>
        /\ "throws" \notin DOMAIN lastCall.out
        /\ "data" \in DOMAIN lastCall.out
        /\ lastCall.out.data = << >>
        /\ ErrorTruthy(lastCall.out)

\* the engine threw a value without a message and executeSQL returned its own text
C11_Witness ==
    /\ lastCall.fn = "executeSQL"
    /\ EngineThrew(lastCall)
    /\ lastCall.sql = SqlNoMessage
    /\ lastCall.out = [data |-> << >>, error |-> "Unknown SQL execution error"]

\* C12: while the engine is unavailable, validateSQL returns valid=true with
\* no error for every SQL text, and makes no call to the parser.
C12_ValidateFailsOpen ==
    (lastCall.fn = "validateSQL" /\ ~lastCall.loaded) =>
        /\ lastCall.out = [valid |-> TRUE]
        /\ lastCall.engine = << >>

\* a statement the parser would reject was validated while the engine was unavailable
C12_Witness ==
    /\ lastCall.fn = "validateSQL"
    /\ ~lastCall.loaded
    /\ lastCall.sql = SqlTypo
    /\ lastCall.out.valid

\* lastCall and earlierCall are two calls of validateSQL on the same SQL text
TwoValidations ==
    /\ lastCall.fn = "validateSQL"
    /\ earlierCall.fn = "validateSQL"
    /\ lastCall.sql = earlierCall.sql

\* C14 as claimed: two calls of validateSQL on the same SQL text return the
\* same outcome, whatever happens between them.
C14_SameOutcomeAlways ==
    TwoValidations => lastCall.out = earlierCall.out

\* C14 (amended): two calls of validateSQL on the same SQL text return the
\* same outcome, unless the engine became available between them: then the
\* first returned valid=true and the second the verdict of the parser.
C14_SameOutcomeUnlessEngineLoads ==
    TwoValidations =>
        \/ lastCall.out = earlierCall.out
        \/ /\ ~earlierCall.loaded
           /\ lastCall.loaded
           /\ earlierCall.out = [valid |-> TRUE]
           /\ ~lastCall.out.valid

\* the same statement was validated before and after the engine loaded
C14_Witness ==
    /\ TwoValidations
    /\ lastCall.sql = SqlTypo
    /\ ~earlierCall.loaded
    /\ lastCall.loaded
    /\ earlierCall.out.valid
    /\ ~lastCall.out.valid

\* what the parser threw in the call of validateSQL
Thrown(call) == call.engine[1].result

\* C15 as claimed: when the parser rejects the SQL, validateSQL returns
\* valid=false and, as its error, the message of the parser as it is, also
\* when that message is empty or missing.
C15_MessageVerbatim ==
    (lastCall.fn = "validateSQL" /\ EngineThrew(lastCall)) =>
        /\ ~lastCall.out.valid
        /\ IF "message" \in DOMAIN Thrown(lastCall)
           THEN /\ "error" \in DOMAIN lastCall.out
                /\ lastCall.out.error = Thrown(lastCall).message
           ELSE "error" \notin DOMAIN lastCall.out

\* C15 (amended): when the parser rejects the SQL, validateSQL returns
\* valid=false and, as its error, the message of the parser as it is when that
\* message is not empty, and the text 'Syntax error' when it is empty or missing.
C15_MessageOrFixedText ==
    (lastCall.fn = "validateSQL" /\ EngineThrew(lastCall)) =>
        /\ ~lastCall.out.valid
        /\ "error" \in DOMAIN lastCall.out
        /\ lastCall.out.error =
              IF "message" \in DOMAIN Thrown(lastCall) /\ Thrown(lastCall).message # ""
              THEN Thrown(lastCall).message
              ELSE "Syntax error"

\* the parser rejected a statement with an empty message
C15_Witness ==
    /\ lastCall.fn = "validateSQL"
    /\ EngineThrew(lastCall)
    /\ Thrown(lastCall) = [throws |-> TRUE, message |-> ""]
    /\ lastCall.out = [valid |-> FALSE, error |-> "Syntax error"]

\* C16: generateSQLFromPrompt rejects with the translation error whenever the
\* external call throws or the text of the model is empty once the fences and
\* the surrounding whitespace are stripped; it never resolves to an empty SQL text.
C16_NeverEmptySql ==
    lastCall.fn = "generateSQLFromPrompt" =>
        /\ lastCall.response.throws =>
              lastCall.out = [rejected |-> TRUE, message |-> TranslationErrorMessage]
        /\ ~lastCall.out.rejected => lastCall.out.sql # EmptyText

HasPrefix(t, p) == Len(p) <= Len(t) /\ SubSeq(t, 1, Len(p)) = p

RECURSIVE TakeWord(_)
\* the atoms of t up to the first whitespace or backtick
TakeWord(t) ==
    IF t = << >> THEN << >>
    ELSE IF Head(t) \in {" ", Backtick} THEN << >>
    ELSE <<Head(t)>> \o TakeWord(Tail(t))

\* the language tag of a raw output that opens with a fence
OpeningTag(raw) ==
    LET t == TrimStart(raw) IN
    IF HasPrefix(t, Fence) THEN TakeWord(SubSeq(t, Len(Fence) + 1, Len(t))) ELSE << >>

\* the text starts with what is left of the language tag of the raw output
LeftoverTag(raw, sql) ==
    LET tag == OpeningTag(raw) IN
    /\ tag \in FenceTags
    /\ \E k \in 1..Len(tag) : HasPrefix(sql, SubSeq(tag, k, Len(tag)))

HasFence(t) == \E i \in 1..(Len(t) - 2) : SubSeq(t, i, i + 2) = Fence

\* the raw text of a response
RawText(response) ==
    IF "text" \in DOMAIN response THEN response.text ELSE EmptyText

\* C17: the text generateSQLFromPrompt resolves to holds no fence marker, no
\* language tag left over from a fence, whatever the tag, and no leading or
\* trailing whitespace.
C17_CleanOutput ==
    (lastCall.fn = "generateSQLFromPrompt" /\ ~lastCall.out.rejected) =>
        /\ ~HasFence(lastCall.out.sql)
        /\ ~LeftoverTag(RawText(lastCall.response), lastCall.out.sql)
        /\ Trim(lastCall.out.sql) = lastCall.out.sql

----------------------------------------------------------------------------
\* Properties of the application (Spec), continued

NotLoadedResult == [data |-> << >>, error |-> "AlaSQL library not loaded"]

\* a step in which the suspended submission validates, executes and records
SubmissionEndsStep == flight.pc = "pause" /\ flight'.pc = "idle"

\* C13: while the engine is unavailable, executeSQL returns no rows and the
\* 'not loaded' error without a call to the engine; so a submission whose SQL
\* went through the validator then ends with that error shown and recorded in
\* an entry of status error.
C13_ExecuteFailsClosed ==
    /\ [](\A sql \in ServiceSqlTexts, rows \in {<< >>, DataA}, elapsed \in 0..MaxExecMs :
             /\ executeSQL(sql, rows, FALSE, elapsed) = NotLoadedResult
             /\ executeSQLEngineCalls(sql, rows, FALSE) = << >>)
    /\ [][(SubmissionEndsStep /\ ~alasqlLoaded) =>
             /\ Len(calls'.submit) = 4
             /\ calls'.submit[2].op = "validate" /\ calls'.submit[2].ok
             /\ calls'.submit[3].op = "execute" /\ ~calls'.submit[3].ok
             /\ queryResult' = NotLoadedResult
             /\ ~isGenerating'
             /\ Len(history') = Len(history) + 1
             /\ history'[1].status = "error"
             /\ history'[1].result = NotLoadedResult
             /\ history'[1].sql = flight.sql]_vars

\* a submission of a statement that does not parse has ended with the
\* 'not loaded' error, the engine being unavailable
C13_Witness ==
    /\ ~alasqlLoaded
    /\ ~InFlight
    /\ Len(calls.submit) = 4
    /\ queryResult = NotLoadedResult
    /\ history[1].status = "error"
    /\ history[1].sql = SqlTypo
    /\ history[1].result = NotLoadedResult

\* the rows of a result are there, and there are none when the error is set
RowsWellFormed(result) ==
    /\ "data" \in DOMAIN result
    /\ HasError(result) => result.data = << >>

\* C18: the result shown and the result of every entry of the ledger have
\* their rows present, and no rows when their error is set.
C18_RowsPresent ==
    /\ queryResult # Null => RowsWellFormed(queryResult)
    /\ \A i \in 1..Len(history) : RowsWellFormed(history[i].result)

\* the view shows an execution error, and the ledger holds it and a result with rows
C18_Witness ==
    /\ queryResult # Null
    /\ HasError(queryResult)
    /\ Len(history) = 2
    /\ history[1].result = queryResult
    /\ history[1].sql = SqlMissingTable
    /\ ~HasError(history[2].result)
    /\ Len(history[2].result.data) > 0

\* C19: loading an entry leaves the ledger and the dataset as they are and
\* calls none of translate, validate and execute; of the state it writes the
\* view only, where the SQL, the result and the status are those of the entry.
C19_LoadIsViewOnly ==
    [][\A i \in 1..Len(history) :
          loadHistoryItem(i) =>
             /\ UNCHANGED <<history, data, columns, state, isGenerating, flight,
                            parsing, alasqlLoaded, now, completed>>
             /\ calls'.manual = << >>
             /\ calls'.submit \in {calls.submit, << >>}
             /\ generatedSql' = history[i].sql
             /\ queryResult' = history[i].result
             /\ sqlStatus' = IF history[i].status = "success" THEN "valid"
                             ELSE "invalid"]_vars

\* the older entry, a failure, is back in the view; the ledger still holds
\* the two entries and the dataset is loaded
C19_Witness ==
    /\ ~InFlight
    /\ calls = NoCalls
    /\ data = DataA
    /\ Len(history) = 2
    /\ history[1].status = "success"
    /\ history[2].status = "error"
    /\ history[2].sql = SqlTypo
    /\ generatedSql = history[2].sql
    /\ queryResult = history[2].result
    /\ sqlStatus = "invalid"
    /\ prompt = history[2].prompt

----------------------------------------------------------------------------
\* Properties of the sessions of ReplaySpec

\* the submission has just ended: the entry at the front of the ledger is the
\* one it recorded
SubmissionJustRecorded ==
    /\ ~InFlight
    /\ calls.submit # << >>
    /\ calls.submit[Len(calls.submit)].op = "addToHistory"
    /\ history # << >>

\* C20: loading the entry of a submission copies its fields into the view:
\* afterwards the question box holds the question recorded in the entry, the
\* SQL console its sql and the result view its result, whatever the question.
C20_LoadCopiesFields ==
    [][(SubmissionJustRecorded /\ loadHistoryItem(1)) =>
          /\ prompt' = history[1].prompt
          /\ generatedSql' = history[1].sql
          /\ queryResult' = history[1].result]_vars

----------------------------------------------------------------------------
\* Properties of the sessions of LiveSpec

\* C21: when the external call returns or fails in the end, every accepted
\* submission ends with the in-flight flag cleared, however it ends; the flag
\* is set only while a submission is in flight, so a later submit of a
\* non-empty question is accepted again.
C21_SubmissionEnds ==
    /\ InFlight ~> (~InFlight /\ ~isGenerating)
    /\ [](~InFlight => ~isGenerating)
    /\ [](~InFlight => \A text \in PromptTexts :
                          Trim(text) # EmptyText => SubmitAccepted(text, isGenerating))

\* a submission has ended by an execution error and the next one has been accepted
C21_Witness ==
    /\ completed.submit = 1
    /\ history[1].sql = SqlMissingTable
    /\ history[1].status = "error"
    /\ flight.pc = "translating"
    /\ isGenerating

----------------------------------------------------------------------------
\* The sessions of IngestSpec: any of the files is picked, the sample is
\* loaded, the promises settle in any order, and one question is asked.

IngestNext ==
    \/ EngineLoads
    \/ PapaLoads
    \/ \E file \in IngestFiles : handleFileUpload(file)
    \/ loadSampleData
    \/ \E file \in IngestFiles : parseCSVSettles(file)
    \/ confirmPreview
    \/ setPrompt(Question1)
    \/ handlePromptSubmit
    \/ translateResolves(SqlFilter)
    \/ pauseEnds
    \/ resetApp

IngestSpec == Init /\ [][IngestNext]_vars

\* C22: while the phase is ANALYSIS, no step other than a reset changes the
\* dataset or the phase; in particular a CSV parse that completes late
\* neither replaces the dataset nor moves the phase back to PREVIEW.
C22_DatasetFixedInAnalysis ==
    [][(state = "ANALYSIS" /\ ~ResetStep) =>
          (data' = data /\ state' = "ANALYSIS")]_vars

\* the parse of the file cannot deliver rows: the parser is missing, or it
\* calls the error callback, or it completes with no rows
ParseFails(file) ==
    \/ ~papaLoaded
    \/ PapaParse(file).callback = "error"
    \/ Len(PapaParse(file).data) = 0

\* the promise that settled in the step was rejected
IngestRejected(log) ==
    /\ log.ingest # << >>
    /\ log.ingest[1].promise.settled = "rejected"

\* C23: when CSV ingestion fails (the parser is unavailable, the parser
\* reports an error, or the file has no rows), parseCSV rejects and the step
\* changes nothing of the session: dataset, column list, phase, history,
\* question, SQL, result and the submission in flight stay as they were, and
\* without the parser no parse is even pending.
C23_FailedIngestionChangesNothing ==
    [][\A file \in IngestFiles :
          /\ (~papaLoaded /\ (handleFileUpload(file) \/ loadSampleData)) =>
                /\ IngestRejected(calls')
                /\ UNCHANGED <<appVars, flight, parsing>>
          /\ (ParseFails(file) /\ parseCSVSettles(file)) =>
                /\ IngestRejected(calls')
                /\ UNCHANGED <<appVars, flight>>]_vars

\* a file without rows has just been rejected, late, in a session that has a
\* dataset and an entry in its history
C23_Witness ==
    /\ IngestRejected(calls)
    /\ calls.ingest[1].promise.reason = "No data found in CSV"
    /\ state = "ANALYSIS"
    /\ data = DataA
    /\ Len(history) > 0

----------------------------------------------------------------------------
\* The column analysis of the Visualization component
\* (src/components/Visualization.tsx), given the rows of a query result.
\*
\* A cell is a JavaScript value tagged with its type; a string is the
\* sequence of its characters.  A row is a function from the column names
\* (the keys of the first row) to cells: a key that a row lacks reads as
\* undefined.  The lists numeric, categorical and date are modelled as sets:
\* their order, the order of the keys, is not.

\* the analysis looks at the first ten rows
SampleSize == 10

\* the rows that follow the padding of an input: up to MaxTail
MaxTail == 3

JsNull == [type |-> "null"]

JsUndefined == [type |-> "undefined"]

JsString(chars) == [type |-> "string", chars |-> chars]

JsNumber(n) == [type |-> "number", value |-> n]

JsBoolean(b) == [type |-> "boolean", flag |-> b]

IsoDay == <<"2", "0", "2", "3", "-", "0", "1", "-", "1", "5">>

YearOnly == <<"2", "0", "2", "3">>

SlashDay == <<"1", "/", "1", "5", "/", "2", "0", "2", "3">>

Word == <<"x">>

Dashed == <<"n", "-", "a">>

\* the cells of the inputs
Cells ==
    {JsNull, JsUndefined, JsString(<< >>), JsString(Word), JsString(Dashed),
     JsString(IsoDay), JsString(YearOnly), JsString(SlashDay), JsNumber(1),
     JsBoolean(TRUE)}

\* the column names of the inputs: id, Date, upTIME
ColumnNames ==
    {<<"i", "d">>, <<"D", "a", "t", "e">>, <<"u", "p", "T", "I", "M", "E">>}

\* String.prototype.toLowerCase, on the letters that occur in the names
LowerOf(c) ==
    CASE c = "D" -> "d"
      [] c = "T" -> "t"
      [] c = "I" -> "i"
      [] c = "M" -> "m"
      [] c = "E" -> "e"
      [] OTHER -> c

ToLowerCase(s) == [i \in 1..Len(s) |-> LowerOf(s[i])]

\* String.prototype.includes
Includes(s, sub) ==
    \E i \in 0..(Len(s) - Len(sub)) : SubSeq(s, i + 1, i + Len(sub)) = sub

\* !isNaN(Date.parse(s)): the two ISO forms and the month/day/year form are
\* dates, the other strings of the inputs are not
DateParses(s) == s \in {IsoDay, YearOnly, SlashDay}

Min(a, b) == IF a <= b THEN a ELSE b

\* val != null
NotNullish(val) == val.type \notin {"null", "undefined"}

\* sampleRows.find(r => r[col] != null)?.[col]
FirstVal(col, sampleRows) ==
    LET found == {i \in 1..Len(sampleRows) : NotNullish(sampleRows[i][col])} IN
    IF found = {} THEN JsUndefined
    ELSE sampleRows[CHOOSE i \in found : \A j \in found : i <= j][col]

\* the date test that looks at the value alone, whatever the column is called
IsDateValueBySeparator(col, firstVal) ==
    /\ firstVal.type = "string"
    /\ DateParses(firstVal.chars)
    /\ \/ Includes(firstVal.chars, <<"-">>)
       \/ Includes(firstVal.chars, <<"/">>)

\* the test of the first branch: a string that parses as a date, in a column
\* named like a date or written with a separator
IsDateValue(col, firstVal) ==
    /\ firstVal.type = "string"
    /\ DateParses(firstVal.chars)
    /\ \/ Includes(ToLowerCase(col), <<"d", "a", "t", "e">>)
       \/ Includes(ToLowerCase(col), <<"t", "i", "m", "e">>)
       \/ Includes(firstVal.chars, <<"-">>)
       \/ Includes(firstVal.chars, <<"/">>)

\* the scan that stops at the first value with data, number or not
ScanFirstOnly(col, sampleRows, i, hasData) ==
    LET seen == {j \in i..Len(sampleRows) :
                    /\ NotNullish(sampleRows[j][col])
                    /\ sampleRows[j][col] # JsString(<< >>)} IN
    IF seen = {} THEN [isNumeric |-> TRUE, hasData |-> hasData]
    ELSE [isNumeric |-> sampleRows[CHOOSE j \in seen : \A k \in seen : j <= k][col].type
                            = "number",
          hasData |-> TRUE]

\* the for loop of the second branch, from row i on: null, undefined and the
\* empty string are passed over, the first value that is not a number ends it
RECURSIVE Scan(_, _, _, _)
Scan(col, sampleRows, i, hasData) ==
    IF i > Len(sampleRows) THEN [isNumeric |-> TRUE, hasData |-> hasData]
    ELSE LET val == sampleRows[i][col] IN
         IF val = JsNull \/ val = JsUndefined \/ val = JsString(<< >>)
         THEN Scan(col, sampleRows, i + 1, hasData)
         ELSE IF val.type # "number"
              THEN [isNumeric |-> FALSE, hasData |-> TRUE]
              ELSE Scan(col, sampleRows, i + 1, TRUE)

\* the body of columns.forEach: the list the column is pushed to, if any
Classify(col, sampleRows) ==
    LET firstVal == FirstVal(col, sampleRows)
        flags == IF IsDateValue(col, firstVal)
                 THEN [isNumeric |-> FALSE, isDate |-> TRUE, hasData |-> FALSE]
                 ELSE LET scan == Scan(col, sampleRows, 1, FALSE) IN
                      [isNumeric |-> scan.isNumeric, isDate |-> FALSE,
                       hasData |-> scan.hasData]
    IN  IF flags.hasData \/ firstVal # JsUndefined
        THEN IF flags.isNumeric THEN "numeric"
             ELSE IF flags.isDate THEN "date"
             ELSE "categorical"
        ELSE "none"

NoColumns == [numeric |-> {}, categorical |-> {}, date |-> {}]

\* the analysis memo
analysis(rows) ==
    IF Len(rows) = 0 THEN NoColumns
    ELSE LET sampleSize == Min(Len(rows), SampleSize)
             sampleRows == SubSeq(rows, 1, sampleSize)
             cols == DOMAIN rows[1]
         IN  [numeric |-> {col \in cols : Classify(col, sampleRows) = "numeric"},
              categorical |-> {col \in cols : Classify(col, sampleRows) = "categorical"},
              date |-> {col \in cols : Classify(col, sampleRows) = "date"}]

\* the compatibleCharts memo
compatibleCharts(lists) ==
    IF lists.numeric # {}
    THEN {"bar"}
         \cup (IF \/ lists.date # {}
                  \/ lists.categorical # {}
                  \/ Cardinality(lists.numeric) > 1
               THEN {"line", "area"} ELSE {})
         \cup (IF lists.categorical # {} THEN {"pie"} ELSE {})
    ELSE {}

\* the rows of an input: one column, a padding of equal cells, then the tail
ColumnRows(col, pad, padLength, tail) ==
    [i \in 1..(padLength + Len(tail)) |->
        [c \in {col} |-> IF i <= padLength THEN pad ELSE tail[i - padLength]]]

\* the paddings: none, or as many rows as leave the last two places of the
\* sample to the tail
PadLengths == {0, SampleSize - 2}

\* the component is rendered with a query result, once
callAnalysis(rows) ==
    /\ lastCall' = [fn |-> "analysis", rows |-> rows, out |-> analysis(rows),
                    charts |-> compatibleCharts(analysis(rows))]
    /\ UNCHANGED <<earlierCall, appVars, flight, parsing, alasqlLoaded, papaLoaded, now,
                   calls, completed>>

ProfileNext ==
    /\ lastCall.fn = "none"
    /\ \E col \in ColumnNames, pad \in {JsNull, JsNumber(1)}, padLength \in PadLengths,
          tail \in SeqsUpTo(Cells, MaxTail) :
           callAnalysis(ColumnRows(col, pad, padLength, tail))

ProfileSpec == ServiceInit /\ [][ProfileNext]_vars

----------------------------------------------------------------------------
\* Properties of the column analysis (ProfileSpec)

\* the rows of the call that the analysis samples
SampledIndexes == {i \in 1..Len(lastCall.rows) : i <= SampleSize}

\* the sampled values of a column
SampledValues(col) == {lastCall.rows[i][col] : i \in SampledIndexes}

\* the columns of the call, when the analysis has been made on some rows
AnalysedColumns ==
    IF lastCall.fn = "analysis" /\ Len(lastCall.rows) > 0
    THEN DOMAIN lastCall.rows[1]
    ELSE {}

\* C24 as stated: a column is numeric only if every sampled value (first 10
\* rows) that is not null is a number, and one sampled non-null value that is
\* not a number makes the column categorical.
C24_OneNonNumericMakesCategorical ==
    \A col \in AnalysedColumns :
        LET nonNull == {v \in SampledValues(col) : v.type \notin {"null", "undefined"}} IN
        /\ col \in lastCall.out.numeric => \A v \in nonNull : v.type = "number"
        /\ (\E v \in nonNull : v.type # "number") => col \in lastCall.out.categorical

\* the value counts as data: it is not null, not undefined, not the empty string
WithData(v) == v.type \notin {"null", "undefined"} /\ v # JsString(<< >>)

\* C24, amended: a column is numeric only if every sampled value (first 10
\* rows) other than null, undefined and the empty string is a number; one
\* such value that is not a number, at any position of the sample, keeps the
\* column out of the numeric list and puts it in the categorical one, or in
\* the temporal one when the first non-null value is a string that parses as
\* a date.  Rows after the tenth have no say.
C24_OneValueWithDataMakesNonNumeric ==
    \A col \in AnalysedColumns :
        LET withData == {v \in SampledValues(col) : WithData(v)} IN
        /\ col \in lastCall.out.numeric => \A v \in withData : v.type = "number"
        /\ (\E v \in withData : v.type # "number") =>
              /\ col \notin lastCall.out.numeric
              /\ col \in lastCall.out.categorical \cup lastCall.out.date
              /\ col \in lastCall.out.date =>
                    \E i \in SampledIndexes :
                        /\ lastCall.rows[i][col].type = "string"
                        /\ DateParses(lastCall.rows[i][col].chars)
                        /\ \A j \in 1..(i - 1) :
                              lastCall.rows[j][col].type \in {"null", "undefined"}

\* nine numbers and then, in the tenth and last sampled row, the word x: the
\* column is categorical
C24_Witness ==
    /\ lastCall.fn = "analysis"
    /\ lastCall.rows = ColumnRows(<<"i", "d">>, JsNumber(1), SampleSize - 2,
                                  <<JsNumber(1), JsString(Word), JsNumber(1)>>)
    /\ lastCall.out.categorical = {<<"i", "d">>}
    /\ lastCall.out.numeric = {}

\* C26: a column is temporal exactly when its first sampled value that is
\* neither null nor undefined is a string that parses as a date and either
\* the column name contains date or time, whatever the case of its letters,
\* or the value contains - or /; the later sampled values have no say.
C26_TemporalByFirstValue ==
    \A col \in AnalysedColumns :
        col \in lastCall.out.date <=>
            \E i \in SampledIndexes :
                LET v == lastCall.rows[i][col] IN
                /\ v.type \notin {"null", "undefined"}
                /\ \A j \in 1..(i - 1) :
                      lastCall.rows[j][col].type \in {"null", "undefined"}
                /\ v.type = "string"
                /\ DateParses(v.chars)
                /\ \/ Includes(ToLowerCase(col), <<"d", "a", "t", "e">>)
                   \/ Includes(ToLowerCase(col), <<"t", "i", "m", "e">>)
                   \/ Includes(v.chars, <<"-">>)
                   \/ Includes(v.chars, <<"/">>)

\* a column named upTIME whose first value is null, whose second is the
\* string 2023 and whose third is a number: the column is temporal
C26_Witness ==
    /\ lastCall.fn = "analysis"
    /\ lastCall.rows = ColumnRows(<<"u", "p", "T", "I", "M", "E">>, JsNull, 0,
                                  <<JsNull, JsString(YearOnly), JsNumber(1)>>)
    /\ lastCall.out.date = {<<"u", "p", "T", "I", "M", "E">>}

\* C30: every column listed as numeric has a number among its sampled
\* values; a column whose sampled values are all null, undefined or empty
\* strings is not listed as numeric and enables no chart.
C30_NumericHasANumber ==
    \A col \in AnalysedColumns :
        col \in lastCall.out.numeric =>
            \E v \in SampledValues(col) : v.type = "number"

----------------------------------------------------------------------------
\* The instruction text that generateSQLFromPrompt builds for the model
\* (src/services/geminiService.ts, lines 16 to 86).
\*
\* The text is a sequence of atoms.  The lines that speak of the table, and
\* the SQL of the few-shot examples, are cut so that the keyword FROM and what
\* follows it are atoms of their own; a passage of prose that does not speak
\* of the table is one atom.  A column name is one atom, a string of the
\* sample row is the sequence of its characters.

\* Array.prototype.join
RECURSIVE Join(_, _)
Join(parts, separator) ==
    IF Len(parts) = 0 THEN << >>
    ELSE IF Len(parts) = 1 THEN <<parts[1]>>
    ELSE <<parts[1], separator>> \o Join(Tail(parts), separator)

\* the concatenation of the texts of a sequence, with a separator atom
RECURSIVE JoinTexts(_, _)
JoinTexts(texts, separator) ==
    IF Len(texts) = 0 THEN << >>
    ELSE IF Len(texts) = 1 THEN texts[1]
    ELSE texts[1] \o <<separator>> \o JoinTexts(Tail(texts), separator)

\* JSON.stringify of a value of a row
JsonValue(cell) ==
    CASE cell.type = "string" -> <<"\"">> \o cell.chars \o <<"\"">>
      [] cell.type = "number" -> <<ToString(cell.value)>>
      [] cell.type = "boolean" -> <<IF cell.flag THEN "true" ELSE "false">>
      [] OTHER -> <<"null">>

\* JSON.stringify of a row, given as the sequence of its properties: a
\* property whose value is undefined is left out
JsonStringify(row) ==
    LET kept == SelectSeq(row, LAMBDA property : property.value # JsUndefined)
        members == [i \in 1..Len(kept) |->
                       <<"\"", kept[i].key, "\"", ":">> \o JsonValue(kept[i].value)]
    IN  <<"{">> \o JoinTexts(members, ",") \o <<"}">>

\* the SQL of the thirteen few-shot examples
FewShotSql ==
    << <<"SELECT DISTINCT therapyName", "FROM", "?", "WHERE biomarkerName = 'TOPO1'">>,
       <<"SELECT DISTINCT therapyName", "FROM", "?", "WHERE biomarkerName = 'RRM1'">>,
       <<"SELECT DISTINCT biomarkerName", "FROM", "?",
         "WHERE therapyName = 'pembrolizumab'">>,
       <<"SELECT DISTINCT biomarkerName", "FROM", "?",
         "WHERE therapyName LIKE '%chemotherapy%'">>,
       <<"SELECT DISTINCT gene", "FROM", "?", "WHERE therapyName LIKE '%platin%'">>,
       <<"SELECT DISTINCT gene", "FROM", "?", "WHERE therapyName LIKE '%mab%'">>,
       <<"SELECT DISTINCT therapyName", "FROM", "?",
         "WHERE primary_Tumor_Organ = 'colon' EXCEPT SELECT DISTINCT therapyName",
         "FROM", "?", "WHERE primary_Tumor_Organ != 'colon'">>,
       <<"SELECT DISTINCT therapyName", "FROM", "?",
         "WHERE primary_Tumor_Organ = 'eye'">>,
       <<"SELECT DISTINCT therapyName", "FROM", "?",
         "WHERE diagnosis_UAHS LIKE '%melanoma%'">>,
       <<"SELECT DISTINCT therapyName", "FROM", "?",
         "WHERE diagnosis_UAHS LIKE '%astrocytoma%'">>,
       <<"SELECT DISTINCT COUNT(sub.case_id)", "FROM", "(", "SELECT DISTINCT case_id",
         "FROM", "?", "WHERE therapyName LIKE '%chemotherapy%'", ")", "AS sub">>,
       <<"SELECT DISTINCT COUNT(sub.case_id)", "FROM", "(", "SELECT DISTINCT case_id",
         "FROM", "?",
         "WHERE primary_Tumor_Organ LIKE '%colon%' OR primary_Tumor_Organ LIKE '%rectum%'",
         ")", "AS sub">>,
       <<"SELECT DISTINCT COUNT(sub.case_id)", "FROM", "(", "SELECT DISTINCT case_id",
         "FROM", "?", "WHERE diagnosis_UAHS LIKE '%adenocarcinoma%'", ")", "AS sub">> >>

\* one few-shot example: the question, then its SQL
RECURSIVE FewShotExamples(_)
FewShotExamples(sqls) ==
    IF Len(sqls) = 0 THEN << >>
    ELSE <<"User:", "<question>", "SQL:">> \o sqls[1] \o FewShotExamples(Tail(sqls))

\* the template with a table name of its own in the place of the placeholder
systemInstructionNamesTable(columnList, sampleRow) ==
    <<"<role and task>", "Table Schema & Definitions:",
      "- Table Name:", "csv_data", "(Always use '", "csv_data", "' as the table name)",
      "- Columns:">> \o Join(columnList, ", ")
    \o <<"Column Semantics:", "<the six column descriptions>", "Sample Data Row:">>
    \o JsonStringify(sampleRow)
    \o <<"Rules:", "<rule 1>",
         "2. Always use '", "csv_data", "' as the table name in the FROM clause.",
         "<rules 3 to 6>", "Few-Shot Examples:">>
    \o FewShotExamples(FewShotSql)

\* the template literal of lines 20 to 86
systemInstruction(columnList, sampleRow) ==
    <<"<role and task>", "Table Schema & Definitions:",
      "- Table Name:", "?", "(Always use '", "?", "' as the table name)",
      "- Columns:">> \o Join(columnList, ", ")
    \o <<"Column Semantics:", "<the six column descriptions>", "Sample Data Row:">>
    \o JsonStringify(sampleRow)
    \o <<"Rules:", "<rule 1>",
         "2. Always use '", "?", "' as the table name in the FROM clause.",
         "<rules 3 to 6>", "Few-Shot Examples:">>
    \o FewShotExamples(FewShotSql)

\* the request handed to ai.models.generateContent
generateContentRequest(userPrompt, columnList, sampleRow) ==
    [model |-> "gemini-3-pro-preview",
     contents |-> userPrompt,
     systemInstruction |-> systemInstruction(columnList, sampleRow),
     thinkingBudget |-> 2048]

\* the column lists of the calls: never empty
ComposeColumns ==
    {<<"category">>, <<"category", "amount">>, <<"case_id", "therapyName", "gene">>}

\* the sample rows of the calls
ComposeRows ==
    {<< >>,
     <<[key |-> "category", value |-> JsString(<<"A">>)],
       [key |-> "amount", value |-> JsNumber(10)]>>,
     <<[key |-> "case_id", value |-> JsNumber(1)],
       [key |-> "therapyName", value |-> JsNull],
       [key |-> "gene", value |-> JsUndefined]>>,
     <<[key |-> "category", value |-> JsString(<< >>)],
       [key |-> "amount", value |-> JsBoolean(TRUE)]>>}

\* the questions of the calls
ComposePrompts == {Question1, ManualQueryLabel}

\* the compose calls made so far that a later call can be compared with
RememberedCompose ==
    {earlierCall} \cup (IF lastCall.fn = "compose" THEN {lastCall} ELSE {})

\* a call of generateSQLFromPrompt up to the request it sends
callCompose(userPrompt, columnList, sampleRow) ==
    /\ lastCall' = [fn |-> "compose", prompt |-> userPrompt, columns |-> columnList,
                    sampleRow |-> sampleRow, loaded |-> alasqlLoaded,
                    request |-> generateContentRequest(userPrompt, columnList, sampleRow)]
    /\ earlierCall' \in RememberedCompose
    /\ UNCHANGED <<appVars, flight, parsing, alasqlLoaded, papaLoaded, now, calls,
                   completed>>

\* calls of generateSQLFromPrompt, in any order, while the engine loads
ComposeNext ==
    \/ EngineLoads
    \/ \E userPrompt \in ComposePrompts, columnList \in ComposeColumns,
          sampleRow \in ComposeRows : callCompose(userPrompt, columnList, sampleRow)

ComposeSpec == ServiceInit /\ [][ComposeNext]_vars

\* what follows the atom at place i of a text
Following(text, i) == IF i < Len(text) THEN text[i + 1] ELSE "<end>"

\* the text names the placeholder as the table: on the line of the table
\* name, in the rule on the FROM clause, and after every FROM of its SQL,
\* which is followed by the placeholder or by a sub-query on the placeholder
NamesPlaceholder(text) ==
    /\ \E i \in 1..Len(text) : text[i] = "- Table Name:"
    /\ \A i \in 1..Len(text) :
          /\ text[i] \in {"- Table Name:", "(Always use '", "2. Always use '"} =>
                Following(text, i) = "?"
          /\ text[i] = "FROM" => Following(text, i) \in {"?", "("}
          /\ text[i] = "(" =>
                (Following(text, i + 1) = "FROM" /\ Following(text, i + 2) = "?")

\* C25: the instruction text of every request names the placeholder ? as the
\* table and no literal table name, whatever the non-empty column list and
\* the sample row; it lists the columns and the sample row it was given; and
\* two requests made with the same column list and sample row carry the same
\* instruction text, whatever the question and whatever happened in between.
C25_InstructionNamesPlaceholder ==
    lastCall.fn = "compose" =>
        /\ NamesPlaceholder(lastCall.request.systemInstruction)
        /\ (/\ earlierCall.fn = "compose"
            /\ earlierCall.columns = lastCall.columns
            /\ earlierCall.sampleRow = lastCall.sampleRow)
           => earlierCall.request.systemInstruction = lastCall.request.systemInstruction

\* two requests with the same columns and sample row, another question, and
\* the engine loaded in between
C25_Witness ==
    /\ lastCall.fn = "compose"
    /\ earlierCall.fn = "compose"
    /\ earlierCall.columns = lastCall.columns
    /\ earlierCall.sampleRow = lastCall.sampleRow
    /\ Len(lastCall.sampleRow) > 0
    /\ earlierCall.prompt # lastCall.prompt
    /\ ~earlierCall.loaded /\ lastCall.loaded

----------------------------------------------------------------------------
\* Properties of the service functions called directly (ServiceSpec), continued

\* the direct call of executeSQL succeeded: it handed back no error
ExecuteSucceeded == lastCall.fn = "executeSQL" /\ ~HasError(lastCall.out)

\* C27: a successful execution returns the rows that the engine returned for
\* the SQL with the dataset as its only parameter, no error, and an
\* executionTimeMs that is present, is the difference of the two readings of
\* the clock taken right before and right after the engine call - nothing
\* else happens between them - and is not negative, the clock never going
\* back.
C27_SuccessfulExecution ==
    ExecuteSucceeded =>
        LET trace == lastCall.trace IN
        /\ Len(trace) = 3
        /\ trace[1].fn = "performance.now"
        /\ trace[2].fn = "alasql"
        /\ trace[3].fn = "performance.now"
        /\ trace[2].sql = lastCall.sql
        /\ trace[2].params = <<lastCall.rows>>
        /\ ~trace[2].result.throws
        /\ lastCall.out.data = trace[2].result.res
        /\ "executionTimeMs" \in DOMAIN lastCall.out
        /\ lastCall.out.executionTimeMs = trace[3].time - trace[1].time
        /\ lastCall.out.executionTimeMs >= 0

\* an execution on the sample rows that took time and returned some of them
C27_Witness ==
    /\ ExecuteSucceeded
    /\ lastCall.rows = DataA
    /\ Len(lastCall.out.data) = 1
    /\ lastCall.trace[1].time = 1
    /\ lastCall.out.executionTimeMs = 1

----------------------------------------------------------------------------
\* Properties of the application (Spec): reset and the submission in flight

\* C28: after a reset the session is empty and stays empty until a query is
\* submitted in it: in the phases UPLOAD and PREVIEW, where no query can be
\* submitted, the history, the SQL shown and the result are empty; a
\* submission still in flight at the reset writes nothing into them.
C28_ResetSessionStaysEmpty ==
    state \in {"UPLOAD", "PREVIEW"} =>
        /\ history = << >>
        /\ generatedSql = EmptyText
        /\ queryResult = Null

\* the operations of a log that were handed the SQL
SqlOps == {"validate", "execute", "addToHistory"}

\* C29: the entry of a submission records the SQL that was validated and
\* executed, which is the text the translator returned, and the question as
\* it was when the submission was accepted, whatever is typed in the question
\* box and whichever entry is loaded while the submission is in flight.
C29_EntryRecordsWhatRan ==
    [][/\ (flight.pc = "idle" /\ flight'.pc = "translating") =>
              flight'.prompt = prompt
       /\ (flight.pc = "translating" /\ flight'.pc = "pause") =>
              /\ flight'.prompt = flight.prompt
              /\ calls'.submit[Len(calls'.submit)].op = "translate"
              /\ calls'.submit[Len(calls'.submit)].sql = flight'.sql
       /\ (flight.pc = "pause" /\ flight'.pc = "pause") =>
              (flight'.prompt = flight.prompt /\ flight'.sql = flight.sql)
       /\ (flight.pc = "translating" /\ flight'.pc = "translating") =>
              flight'.prompt = flight.prompt
       /\ (flight.pc = "translating" /\ flight'.pc = "idle") =>
              /\ history'[1].prompt = flight.prompt
              /\ history'[1].sql = EmptyText
              /\ \A i \in 1..Len(calls'.submit) :
                    calls'.submit[i].op \notin {"validate", "execute"}
       /\ SubmissionEndsStep =>
              /\ Len(history') = Len(history) + 1
              /\ history'[1].prompt = flight.prompt
              /\ history'[1].sql = flight.sql
              /\ \E i \in 1..Len(calls'.submit) : calls'.submit[i].op = "validate"
              /\ \A i \in 1..Len(calls'.submit) :
                    /\ calls'.submit[i].op \in SqlOps => calls'.submit[i].sql = flight.sql
                    /\ calls'.submit[i].op = "translate" => calls'.submit[i].sql = flight.sql]_vars

\* a submission has just ended after an older entry was loaded and the
\* question box was edited during its pause: its entry shows neither the SQL
\* of the console nor the text of the box
C29_Witness ==
    /\ flight.pc = "idle"
    /\ calls.submit # << >>
    /\ calls.submit[Len(calls.submit)].op = "addToHistory"
    /\ Len(history) = 2
    /\ history[1].sql = SqlTypo
    /\ generatedSql = SqlFilter
    /\ history[1].prompt = Question1
    /\ prompt # Question1

====
